---- MODULE Spec2Model ----
(***************************************************************************)
(* Model of the request pipeline of mini-api-gateway (src/server.js):      *)
(* authenticateApiKey -> rateLimiter -> cacheMiddleware -> /health,        *)
(* /gateway/stats, the proxy mounts and the 404 handler, over the two      *)
(* module-level maps rateLimitStore and cacheStore.                        *)
(*                                                                         *)
(* Node runs one callback at a time: the middleware chain of a request     *)
(* runs to completion before any other request is looked at.  `cur` is the *)
(* request whose callback is running, `awaiting` the requests whose        *)
(* upstream call is outstanding, `pending` the requests that have arrived  *)
(* and wait for the event loop.  Strings are sequences of one-character    *)
(* strings, timestamps are integer milliseconds.                           *)
(***************************************************************************)
EXTENDS Integers, Sequences, FiniteSets, Bags, TLC

VARIABLES
    now,            \* Date.now()
    config,         \* Object.entries(config): sequence of <<route, target>>
    rateLimitStore, \* Map ip -> [count, windowStart]
    cacheStore,     \* Map cacheKey -> [data, timestamp], in insertion order
    cur,            \* the request whose callback is running
    awaiting,       \* bag of requests forwarded upstream, not yet answered
    pending,        \* bag of requests that arrived and are not yet handled
    lastOk,         \* history: cacheKey -> time of the last upstream 200 relayed
    arrivals,       \* history: ip -> the authenticated requests of its window
    admitted        \* history: ip -> bag of the arrival times of the requests let
                    \* through, kept by the sliding-minute specification only

vars ==
    <<now, config, rateLimitStore, cacheStore, cur, awaiting, pending, lastOk,
      arrivals, admitted>>

----------------------------------------------------------------------------
(* Program constants *)

windowMs == 60000
maxRequests == 10
cacheTtlMs == 30000
cacheMaxSize == 100
cacheEvictBatch == 10

(* process.env.API_KEY || 'gateway-secret-key', abbreviated *)
validApiKey == <<"k", "e", "y">>

(* Bounds of the model: authenticated requests handled per client, and *)
(* upstream calls outstanding at once                                  *)
MaxCount == 12
MaxInFlight == 2
(* the requests ip1 has already made in its window when the pipeline *)
(* specifications start: the limit is three requests away            *)
Warm == maxRequests - 3
BurstExtra == 1
(* requests that arrive together in the routing specification *)
RouteBatch == 2
Burst == maxRequests + BurstExtra

----------------------------------------------------------------------------
(* Strings *)

StartsWith(s, p) == Len(p) <= Len(s) /\ SubSeq(s, 1, Len(p)) = p

(* index of the first "?" of s, or 0 *)
QueryIndex(s) ==
    IF \E i \in 1..Len(s) : s[i] = "?"
    THEN CHOOSE i \in 1..Len(s) : s[i] = "?" /\ \A j \in 1..(i - 1) : s[j] # "?"
    ELSE 0

(* req.path: the pathname of the request URL *)
PathOf(url) ==
    IF QueryIndex(url) = 0 THEN url ELSE SubSeq(url, 1, QueryIndex(url) - 1)

(* new Date(t).toISOString(): one string per millisecond *)
toISOString(t) == <<"iso", t>>

(* Math.ceil(x / 1000) *)
CeilSeconds(x) == -((-x) \div 1000)

Max(a, b) == IF a >= b THEN a ELSE b

HealthPath == <<"/", "h">>
StatsPath == <<"/", "g", "/", "s">>

(* process.env.API_KEY || 'gateway-secret-key' is validApiKey above; the      *)
(* other header values a client may send (<<>> is an absent or empty header) *)
NoKey == <<>>
WrongKey == <<"b", "a", "d">>

----------------------------------------------------------------------------
(* Requests and responses *)

NoBody ==
    [tag |-> "none", activeConnections |-> 0, cacheSize |-> 0,
     routes |-> <<>>, service |-> ""]

NoReq ==
    [stage |-> "idle", method |-> "", url |-> <<>>, apiKey |-> <<>>, ip |-> "",
     status |-> 0, sent |-> 0, body |-> NoBody,
     cached |-> FALSE, cachedAt |-> <<>>,
     rlLimit |-> -1, rlRemaining |-> -1, rlReset |-> <<>>, retryAfter |-> -1,
     wrapped |-> FALSE, cacheKey |-> <<>>,
     calls |-> 0, target |-> "", upPath |-> <<>>]

NewReq(m, u, k, ip) ==
    [NoReq EXCEPT !.stage = "recv", !.method = m, !.url = u, !.apiKey = k,
                  !.ip = ip, !.status = 200]

(* res.status(s).json(b) through the original res.json: the response is sent *)
SendJson(r, s, b) ==
    [r EXCEPT !.stage = "responded", !.status = s, !.body = b, !.sent = @ + 1]

----------------------------------------------------------------------------
(* cacheStore: a Map kept in insertion order *)

KeyIndex(store, key) ==
    IF \E i \in 1..Len(store) : store[i].key = key
    THEN CHOOSE i \in 1..Len(store) : store[i].key = key
    ELSE 0

(* Map.prototype.set: a new key goes last, an existing key keeps its place *)
MapSet(store, entry) ==
    IF KeyIndex(store, entry.key) = 0
    THEN Append(store, entry)
    ELSE [store EXCEPT ![KeyIndex(store, entry.key)] = entry]

EvictOne(store) ==
    IF Len(store) > cacheMaxSize THEN SubSeq(store, 2, Len(store)) ELSE store

(* Array.from(cacheStore.keys()).slice(0, 10).forEach(delete) *)
EvictOldest(store) ==
    IF Len(store) > cacheMaxSize
    THEN SubSeq(store, cacheEvictBatch + 1, Len(store))
    ELSE store

CacheKeyWithoutCredential(m, u, k) == <<m>> \o <<":">> \o u

(* `${req.method}:${req.originalUrl}:${req.headers['x-api-key']}` *)
CacheKey(m, u, k) == <<m>> \o <<":">> \o u \o <<":">> \o k

StoreAnyStatus(store, r, s, b) ==
    IF r.wrapped
    THEN EvictOldest(MapSet(store,
             [key |-> r.cacheKey, data |-> b, timestamp |-> now,
              gMethod |-> r.method, gUrl |-> r.url, gApiKey |-> r.apiKey,
              gStatus |-> s]))
    ELSE store

(* the res.json installed by cacheMiddleware, then the original res.json *)
StoreOnJson(store, r, s, b) ==
    IF r.wrapped /\ s = 200
    THEN EvictOldest(MapSet(store,
             [key |-> r.cacheKey, data |-> b, timestamp |-> now,
              gMethod |-> r.method, gUrl |-> r.url, gApiKey |-> r.apiKey,
              gStatus |-> s]))
    ELSE store

IsFreshInclusive(entry) == (now - entry.timestamp) <= cacheTtlMs

(* cached && (Date.now() - cached.timestamp) < 30000 *)
IsFresh(entry) == (now - entry.timestamp) < cacheTtlMs

----------------------------------------------------------------------------
(* rateLimitStore *)

IsExpiredAfterTwoWindows(data) == now - data.windowStart > 2 * windowMs

IsExpired(data) == now - data.windowStart > windowMs

(* no sweep: every window stays in the store *)
SweepNone(store) == store

(* the sweep of lines 59-63 *)
Sweep(store) ==
    [i \in {j \in DOMAIN store : ~IsExpired(store[j])} |-> store[i]]

(* a count that stops at the limit: a denied request is not counted *)
CountedUnlessDenied(store, ip) ==
    LET fresh == [count |-> 0, windowStart |-> now]
        ipData == IF ip \in DOMAIN store /\ ~IsExpired(store[ip])
                  THEN store[ip] ELSE fresh
    IN IF ipData.count > maxRequests THEN ipData
       ELSE [ipData EXCEPT !.count = @ + 1]

(* lines 65-70: the client's window after this request is counted *)
Counted(store, ip) ==
    LET fresh == [count |-> 0, windowStart |-> now]
        ipData == IF ip \in DOMAIN store /\ ~IsExpired(store[ip])
                  THEN store[ip] ELSE fresh
    IN [ipData EXCEPT !.count = @ + 1]

MapPut(store, k, v) ==
    [i \in DOMAIN store \cup {k} |-> IF i = k THEN v ELSE store[i]]

RetryAfter(ipData) == CeilSeconds(windowMs - (now - ipData.windowStart))

RemainingBeforeCount(ipData) == Max(0, maxRequests - ipData.count + 1)

Remaining(ipData) == Max(0, maxRequests - ipData.count)

----------------------------------------------------------------------------
(* Routing *)

Routes == {config[i][1] : i \in 1..Len(config)}

ConfigKeysReversed == [i \in 1..Len(config) |-> config[Len(config) + 1 - i][1]]

(* Object.keys(config) *)
ConfigKeys == [i \in 1..Len(config) |-> config[i][1]]

(* app.use(route, proxy): Express matches a mount path at a segment boundary *)
MountMatches(route, path) ==
    /\ StartsWith(path, route)
    /\ IF Len(path) = Len(route) THEN TRUE
       ELSE path[Len(route) + 1] = "/" \/ route[Len(route)] = "/"

(* app.get(p, ...): the whole path, with an optional trailing slash *)
ExactMatches(p, path) == path = p \/ path = p \o <<"/">>

(* index of the first configured route the path starts with, or 0 *)
FirstPrefix(path) ==
    IF \E i \in 1..Len(config) : StartsWith(path, config[i][1])
    THEN CHOOSE i \in 1..Len(config) :
             /\ StartsWith(path, config[i][1])
             /\ \A j \in 1..(i - 1) : ~StartsWith(path, config[j][1])
    ELSE 0

(* index of the longest configured route the path starts with, or 0 *)
LongestPrefix(path) ==
    IF \E i \in 1..Len(config) : StartsWith(path, config[i][1])
    THEN CHOOSE i \in 1..Len(config) :
             /\ StartsWith(path, config[i][1])
             /\ \A j \in 1..Len(config) :
                   StartsWith(path, config[j][1])
                       => Len(config[j][1]) <= Len(config[i][1])
    ELSE 0

RouterLongest(path) ==
    IF LongestPrefix(path) = 0 THEN "null" ELSE config[LongestPrefix(path)][2]

(* proxyOptions.router *)
Router(path) == IF FirstPrefix(path) = 0 THEN "null" ELSE config[FirstPrefix(path)][2]

(* is the request handed to the proxy by one of the mounts of lines 220-223 *)
Mounted(path) == \E i \in 1..Len(config) : MountMatches(config[i][1], path)

(* proxyOptions.onProxyReq: the path sent upstream *)
StripPrefix(path) ==
    IF FirstPrefix(path) = 0 THEN path
    ELSE LET route == config[FirstPrefix(path)][1]
             rest == SubSeq(path, Len(route) + 1, Len(path))
         IN IF rest = <<>> THEN <<"/">> ELSE rest

(* '?' + req.url.split('?')[1] *)
QueryPart(url) ==
    IF QueryIndex(url) = 0 THEN <<>>
    ELSE LET after == SubSeq(url, QueryIndex(url) + 1, Len(url))
             q2 == QueryIndex(after)
         IN <<"?">> \o (IF q2 = 0 THEN after ELSE SubSeq(after, 1, q2 - 1))

ProxyPath(url) == StripPrefix(PathOf(url)) \o QueryPart(url)

----------------------------------------------------------------------------
(* Inputs *)

DigitChars == <<"0", "1", "2", "3", "4", "5", "6", "7", "8", "9">>

RECURSIVE Decimal(_)
Decimal(i) ==
    IF i < 10 THEN <<DigitChars[i + 1]>>
    ELSE Decimal(i \div 10) \o <<DigitChars[(i % 10) + 1]>>

(* the i-th URL of a monitor that polls /gateway/stats?<i> *)
PollUrl(i) == StatsPath \o <<"?">> \o Decimal(i)

Ips == {"ip1", "ip2"}
Keys == {NoKey, validApiKey, WrongKey}
UserPath == <<"/", "u">>
UserUrl == UserPath \o <<"/", "1">>
NoRouteUrl == <<"/", "n">>

(* the requests of the pipeline specification: <<method, url, x-api-key, ip>> *)
Requests ==
    ({"GET"} \X {StatsPath, HealthPath, UserUrl, NoRouteUrl}
             \X {validApiKey} \X {"ip1"})
    \cup ({"POST"} \X {StatsPath, UserUrl} \X {validApiKey} \X {"ip1"})
    \cup ({"GET"} \X {StatsPath, HealthPath} \X {NoKey, WrongKey} \X {"ip1"})

(* the requests of the eviction specification; the last one asks again for *)
(* the oldest URL the poller fetched                                       *)
EvictRequests ==
    {"GET"} \X {StatsPath, StatsPath \o <<"?", "a">>, PollUrl(1)}
            \X {validApiKey} \X {"ip1"}

(* the requests of the rate-limit specification *)
RateRequests ==
    ({"POST"} \X {NoRouteUrl} \X {validApiKey} \X Ips)
    \cup ({"POST"} \X {NoRouteUrl} \X {WrongKey} \X {"ip1"})

(* two routes of which one prefix continues the other, in both declaration *)
(* orders                                                                  *)
ApiPath == <<"/", "a">>
ApiUserPath == ApiPath \o <<"/", "u">>
RouteConfigs ==
    { << <<ApiPath, "A">>, <<ApiUserPath, "U">> >>,
      << <<ApiUserPath, "U">>, <<ApiPath, "A">> >> }

(* the requests of the routing specification: under both prefixes with a  *)
(* query, the shorter prefix alone, a query that holds a second "?", two  *)
(* paths that go on after a prefix without a "/", and a path of no route  *)
RouteRequests ==
    {"GET"} \X { ApiUserPath \o <<"/", "1", "?", "x">>,
                 ApiPath,
                 ApiUserPath \o <<"?", "x", "?", "y">>,
                 ApiUserPath \o <<"x">>,
                 ApiPath \o <<"x">>,
                 NoRouteUrl }
            \X {validApiKey} \X {"ip1"}

(* the instants at which something happens: around the TTL and the window *)
TimePoints ==
    {0, cacheTtlMs - 500, cacheTtlMs, windowMs - 500, windowMs, windowMs + 500}
UpstreamStatuses == {200, 500}
Configs == { << <<UserPath, "users">>, <<(<<"/", "o">>), "orders">> >> }

----------------------------------------------------------------------------
(* Actions *)

Idle == cur.stage = "idle"

(* Date.now() advances *)
Tick(t) ==
    /\ t > now
    /\ now' = t
    /\ UNCHANGED <<config, rateLimitStore, cacheStore, cur, awaiting, pending, lastOk, arrivals, admitted>>

(* a request enters the middleware chain (lines 26-29, 128-131) *)
(* authenticated requests of a client so far, over its last two windows *)
Seen(ip) == IF ip \in DOMAIN arrivals THEN arrivals[ip].n + arrivals[ip].prevN ELSE 0

(* a request callback starts only when none is running; the other two *)
(* conjuncts keep the model finite                                    *)
CanAccept(ip) ==
    /\ Idle
    /\ Seen(ip) < MaxCount
    /\ BagCardinality(awaiting) < MaxInFlight

Receive(m, u, k, ip) ==
    /\ CanAccept(ip)
    /\ pending = EmptyBag
    /\ cur' = NewReq(m, u, k, ip)
    /\ UNCHANGED <<now, config, rateLimitStore, cacheStore, awaiting, pending, lastOk, arrivals, admitted>>

(* the event loop picks one of the requests that arrived together *)
Dequeue(r) ==
    /\ CanAccept(r.ip)
    /\ BagIn(r, pending)
    /\ pending' = pending (-) SetToBag({r})
    /\ cur' = r
    /\ UNCHANGED <<now, config, rateLimitStore, cacheStore, awaiting, lastOk, arrivals, admitted>>

AuthResultPresenceOnly(r) ==
    IF r.apiKey = <<>>
    THEN SendJson(r, 401, [NoBody EXCEPT !.tag = "missingApiKey"])
    ELSE [r EXCEPT !.stage = "authed"]

AuthResult(r) ==
    IF r.apiKey = <<>>
    THEN SendJson(r, 401, [NoBody EXCEPT !.tag = "missingApiKey"])
    ELSE IF r.apiKey # validApiKey
    THEN SendJson(r, 401, [NoBody EXCEPT !.tag = "invalidApiKey"])
    ELSE [r EXCEPT !.stage = "authed"]

authenticateApiKey ==
    /\ cur.stage = "recv"
    /\ cur' = AuthResult(cur)
    /\ UNCHANGED <<now, config, rateLimitStore, cacheStore, awaiting, pending, lastOk, arrivals, admitted>>

(* history of a client's window (the window that begins at windowStart ws): *)
(* n requests passed authentication in it, ok of them were let through, and  *)
(* prevN passed authentication in the client's window before it              *)
Arrived(hist, ip, ws, allowed) ==
    LET old == IF ip \in DOMAIN hist THEN hist[ip]
               ELSE [ws |-> ws, n |-> 0, ok |-> 0, prevN |-> 0]
        base == IF old.ws = ws THEN old
                ELSE [ws |-> ws, n |-> 0, ok |-> 0, prevN |-> old.n]
    IN [base EXCEPT !.n = @ + 1, !.ok = IF allowed THEN @ + 1 ELSE @]

RateResultOneMore(r, ipData) ==
    IF ipData.count > maxRequests + 1
    THEN [SendJson(r, 429, [NoBody EXCEPT !.tag = "rateLimited"])
             EXCEPT !.retryAfter = RetryAfter(ipData)]
    ELSE [r EXCEPT !.stage = "rated",
                   !.rlLimit = maxRequests,
                   !.rlRemaining = Remaining(ipData),
                   !.rlReset = toISOString(ipData.windowStart + windowMs)]

RateResult(r, ipData) ==
    IF ipData.count > maxRequests
    THEN [SendJson(r, 429, [NoBody EXCEPT !.tag = "rateLimited"])
             EXCEPT !.retryAfter = RetryAfter(ipData)]
    ELSE [r EXCEPT !.stage = "rated",
                   !.rlLimit = maxRequests,
                   !.rlRemaining = Remaining(ipData),
                   !.rlReset = toISOString(ipData.windowStart + windowMs)]

(* lines 52-88, with the history of the client's window *)
RateStep ==
    /\ cur.stage = "authed"
    /\ LET ipData == Counted(Sweep(rateLimitStore), cur.ip)
       IN /\ rateLimitStore' = MapPut(Sweep(rateLimitStore), cur.ip, ipData)
          /\ cur' = RateResult(cur, ipData)
          /\ arrivals' = MapPut(arrivals, cur.ip,
                 Arrived(arrivals, cur.ip, ipData.windowStart,
                         RateResult(cur, ipData).stage = "rated"))
    /\ UNCHANGED <<now, config, cacheStore, awaiting, pending, lastOk>>

rateLimiter ==
    /\ RateStep
    /\ UNCHANGED admitted

(* the arrival times, less than windowMs ago, of the requests of ip that *)
(* were let through, and this arrival with them if it is let through    *)
Admit(hist, ip, allowed) ==
    LET old == IF ip \in DOMAIN hist THEN hist[ip] ELSE EmptyBag
        recent == [a \in {b \in DOMAIN old : now - b < windowMs} |-> old[a]]
    IN IF allowed THEN recent (+) SetToBag({now}) ELSE recent

(* rateLimiter, with the arrival times of the admitted requests recorded *)
rateLimiterLogged ==
    /\ RateStep
    /\ admitted' = MapPut(admitted, cur.ip,
                        Admit(admitted, cur.ip, cur'.stage = "rated"))

(* a hit that answers and then goes on to the route handlers *)
CacheResultFallsThrough(r, store) ==
    IF r.method # "GET"
    THEN [r EXCEPT !.stage = "miss"]
    ELSE LET key == CacheKey(r.method, r.url, r.apiKey)
             i == KeyIndex(store, key)
         IN IF i # 0 /\ IsFresh(store[i])
            THEN [SendJson(r, r.status, store[i].data)
                     EXCEPT !.stage = "miss",
                            !.cached = TRUE,
                            !.cachedAt = toISOString(store[i].timestamp),
                            !.cacheKey = key]
            ELSE [r EXCEPT !.stage = "miss", !.wrapped = TRUE, !.cacheKey = key]

CacheResult(r, store) ==
    IF r.method # "GET"
    THEN [r EXCEPT !.stage = "miss"]
    ELSE LET key == CacheKey(r.method, r.url, r.apiKey)
             i == KeyIndex(store, key)
         IN IF i # 0 /\ IsFresh(store[i])
            THEN [SendJson(r, r.status, store[i].data)
                     EXCEPT !.cached = TRUE,
                            !.cachedAt = toISOString(store[i].timestamp),
                            !.cacheKey = key]
            ELSE [r EXCEPT !.stage = "miss", !.wrapped = TRUE, !.cacheKey = key]

cacheMiddleware ==
    /\ cur.stage = "rated"
    /\ cur' = CacheResult(cur, cacheStore)
    /\ UNCHANGED <<now, config, rateLimitStore, cacheStore, awaiting, pending, lastOk, arrivals, admitted>>

IsHealth(r) == r.method = "GET" /\ ExactMatches(HealthPath, PathOf(r.url))
IsStats(r) == r.method = "GET" /\ ExactMatches(StatsPath, PathOf(r.url))

(* a handler answers 200 through res.json, which is the wrapper for a GET *)
AnswerJson(s, b) ==
    /\ cacheStore' = StoreOnJson(cacheStore, cur, s, b)
    /\ cur' = SendJson(cur, s, b)

healthHandler ==
    /\ cur.stage = "miss"
    /\ IsHealth(cur)
    /\ AnswerJson(cur.status, [NoBody EXCEPT !.tag = "health", !.routes = ConfigKeys])
    /\ UNCHANGED <<now, config, rateLimitStore, awaiting, pending, lastOk, arrivals, admitted>>

StatsBody ==
    [NoBody EXCEPT !.tag = "stats",
                   !.activeConnections = Cardinality(DOMAIN rateLimitStore),
                   !.cacheSize = Len(cacheStore)]

statsHandler ==
    /\ cur.stage = "miss"
    /\ ~IsHealth(cur)
    /\ IsStats(cur)
    /\ AnswerJson(cur.status, StatsBody)
    /\ UNCHANGED <<now, config, rateLimitStore, awaiting, pending, lastOk, arrivals, admitted>>

(* one of the mounts hands the request to the proxy, which calls upstream *)
proxy ==
    /\ cur.stage = "miss"
    /\ ~IsHealth(cur) /\ ~IsStats(cur)
    /\ Mounted(PathOf(cur.url))
    /\ awaiting' = awaiting (+) SetToBag({
           [cur EXCEPT !.stage = "upstream",
                       !.calls = @ + 1,
                       !.target = Router(PathOf(cur.url)),
                       !.upPath = ProxyPath(cur.url)]})
    /\ cur' = NoReq
    /\ UNCHANGED <<now, config, rateLimitStore, cacheStore, pending, lastOk, arrivals, admitted>>

notFoundHandler ==
    /\ cur.stage = "miss"
    /\ ~IsHealth(cur) /\ ~IsStats(cur)
    /\ ~Mounted(PathOf(cur.url))
    /\ AnswerJson(404, [NoBody EXCEPT !.tag = "routeNotFound", !.routes = ConfigKeys])
    /\ UNCHANGED <<now, config, rateLimitStore, awaiting, pending, lastOk, arrivals, admitted>>

(* the backend answers; http-proxy pipes status and body to the client *)
onProxyRes(r, s) ==
    /\ Idle
    /\ BagIn(r, awaiting)
    /\ awaiting' = awaiting (-) SetToBag({r})
    /\ cur' = [r EXCEPT !.stage = "responded", !.status = s, !.sent = @ + 1,
                        !.body = [NoBody EXCEPT !.tag = "upstream"]]
    /\ lastOk' = IF s = 200 /\ r.method = "GET"
                 THEN MapPut(lastOk, CacheKey(r.method, r.url, r.apiKey), now)
                 ELSE lastOk
    /\ UNCHANGED <<now, config, rateLimitStore, cacheStore, pending, arrivals, admitted>>

(* the loop of lines 173-178 without its break *)
ErrorTargetLast(path) ==
    IF FirstPrefix(path) = 0 THEN "unknown"
    ELSE config[CHOOSE i \in 1..Len(config) :
                    /\ StartsWith(path, config[i][1])
                    /\ \A j \in (i + 1)..Len(config) :
                          ~StartsWith(path, config[j][1])][2]

(* lines 172-178: the target named in the 502 body *)
ErrorTarget(path) ==
    IF FirstPrefix(path) = 0 THEN "unknown" ELSE config[FirstPrefix(path)][2]

BadGateway(r) ==
    [NoBody EXCEPT !.tag = "badGateway", !.service = ErrorTarget(PathOf(r.url))]

(* the upstream call fails at network level; the 502 is written only if *)
(* no response has been started (!res.headersSent)                      *)
onError(r) ==
    /\ Idle
    /\ BagIn(r, awaiting)
    /\ awaiting' = awaiting (-) SetToBag({r})
    /\ cacheStore' = IF r.sent = 0
                     THEN StoreOnJson(cacheStore, r, 502, BadGateway(r))
                     ELSE cacheStore
    /\ cur' = IF r.sent = 0
              THEN SendJson(r, 502, BadGateway(r))
              ELSE [r EXCEPT !.stage = "responded"]
    /\ UNCHANGED <<now, config, rateLimitStore, pending, lastOk, arrivals, admitted>>

(* the response is on the wire; the callback returns *)
Finish ==
    /\ cur.stage = "responded"
    /\ cur' = NoReq
    /\ UNCHANGED <<now, config, rateLimitStore, cacheStore, awaiting, pending, lastOk, arrivals, admitted>>

----------------------------------------------------------------------------
(* Specification *)

EmptyMap == [i \in {} |-> 0]

(* the state after construction (lines 11-12) *)
InitCold ==
    /\ now = 0
    /\ config \in Configs
    /\ rateLimitStore = EmptyMap
    /\ cacheStore = <<>>
    /\ cur = NoReq
    /\ awaiting = EmptyBag
    /\ pending = EmptyBag
    /\ lastOk = EmptyMap
    /\ admitted = EmptyMap
    /\ arrivals = EmptyMap

(* the state after ip1 has made Warm authenticated requests to a path with  *)
(* no route at time 0: each was counted and answered 404, nothing was cached *)
Init ==
    /\ now = 0
    /\ config \in Configs
    /\ rateLimitStore = ("ip1" :> [count |-> Warm, windowStart |-> 0])
    /\ cacheStore = <<>>
    /\ cur = NoReq
    /\ awaiting = EmptyBag
    /\ pending = EmptyBag
    /\ lastOk = EmptyMap
    /\ admitted = EmptyMap
    /\ arrivals = ("ip1" :> [ws |-> 0, n |-> Warm, ok |-> Warm, prevN |-> 0])

Next ==
    \/ \E t \in TimePoints : Tick(t)
    \/ \E q \in Requests : Receive(q[1], q[2], q[3], q[4])
    \/ authenticateApiKey
    \/ rateLimiter
    \/ cacheMiddleware
    \/ healthHandler
    \/ statsHandler
    \/ proxy
    \/ notFoundHandler
    \/ \E r \in BagToSet(awaiting), s \in UpstreamStatuses : onProxyRes(r, s)
    \/ \E r \in BagToSet(awaiting) : onError(r)
    \/ Finish

Spec == Init /\ [][Next]_vars

(* The rate limiter under two clients: no request reaches a cached route *)
NextRate ==
    \/ \E t \in TimePoints : Tick(t)
    \/ \E q \in RateRequests : Receive(q[1], q[2], q[3], q[4])
    \/ authenticateApiKey
    \/ rateLimiter
    \/ cacheMiddleware
    \/ notFoundHandler
    \/ Finish

SpecRate == InitCold /\ [][NextRate]_vars

(* One client against the clock, with the times of its admitted requests *)
(* recorded                                                              *)
WindowRequests == {"POST"} \X {NoRouteUrl} \X {validApiKey} \X {"ip1"}

NextWindow ==
    \/ \E t \in TimePoints : Tick(t)
    \/ \E q \in WindowRequests : Receive(q[1], q[2], q[3], q[4])
    \/ authenticateApiKey
    \/ rateLimiterLogged
    \/ cacheMiddleware
    \/ notFoundHandler
    \/ Finish

SpecWindow == InitCold /\ [][NextWindow]_vars

(* Burst identical requests of one new client have arrived together *)
BurstRequest == NewReq("GET", UserUrl, validApiKey, "ip1")

InitBurst ==
    /\ now = 0
    /\ config \in Configs
    /\ rateLimitStore = EmptyMap
    /\ cacheStore = <<>>
    /\ cur = NoReq
    /\ awaiting = EmptyBag
    /\ pending = (BurstRequest :> Burst)
    /\ lastOk = EmptyMap
    /\ admitted = EmptyMap
    /\ arrivals = EmptyMap

NextBurst ==
    \/ \E t \in TimePoints : Tick(t)
    \/ \E r \in BagToSet(pending) : Dequeue(r)
    \/ authenticateApiKey
    \/ rateLimiter
    \/ cacheMiddleware
    \/ proxy
    \/ \E r \in BagToSet(awaiting), s \in UpstreamStatuses : onProxyRes(r, s)
    \/ \E r \in BagToSet(awaiting) : onError(r)
    \/ Finish

SpecBurst == InitBurst /\ [][NextBurst]_vars

(* A monitor at ip0 has polled GET /gateway/stats?<i> once every PollGap ms, *)
(* i = 1..filled: each poll was the only request of its window, was answered *)
(* 200 and stored; the last poll was PollGap ms ago.  Then ip1 made its Warm *)
(* requests at time 0, the first of which swept the monitor's window         *)
PollGap == windowMs + 1

PollTime(i, filled) == -((filled - i + 1) * PollGap)

PollEntry(i, filled) ==
    [key |-> CacheKey("GET", PollUrl(i), validApiKey),
     data |-> [NoBody EXCEPT !.tag = "stats", !.activeConnections = 1,
                             !.cacheSize = i - 1],
     timestamp |-> PollTime(i, filled),
     gMethod |-> "GET", gUrl |-> PollUrl(i), gApiKey |-> validApiKey,
     gStatus |-> 200]

InitFilled ==
    /\ now = 0
    /\ config \in Configs
    /\ \E filled \in {cacheMaxSize - 1, cacheMaxSize} :
          /\ cacheStore = [i \in 1..filled |-> PollEntry(i, filled)]
          /\ arrivals =
                 ("ip0" :> [ws |-> PollTime(filled, filled), n |-> 1, ok |-> 1,
                            prevN |-> 1])
                 @@ ("ip1" :> [ws |-> 0, n |-> Warm, ok |-> Warm, prevN |-> 0])
    /\ rateLimitStore = ("ip1" :> [count |-> Warm, windowStart |-> 0])
    /\ cur = NoReq
    /\ awaiting = EmptyBag
    /\ pending = EmptyBag
    /\ lastOk = EmptyMap
    /\ admitted = EmptyMap

NextEvict ==
    \/ \E t \in TimePoints : Tick(t)
    \/ \E q \in EvictRequests : Receive(q[1], q[2], q[3], q[4])
    \/ authenticateApiKey
    \/ rateLimiter
    \/ cacheMiddleware
    \/ statsHandler
    \/ Finish

SpecEvict == InitFilled /\ [][NextEvict]_vars

(* Routing over overlapping prefixes: RouteBatch different requests have *)
(* arrived together at a gateway that has just started                   *)
InitRoute ==
    /\ now = 0
    /\ config \in RouteConfigs
    /\ rateLimitStore = EmptyMap
    /\ cacheStore = <<>>
    /\ cur = NoReq
    /\ awaiting = EmptyBag
    /\ \E batch \in SUBSET RouteRequests :
          /\ Cardinality(batch) = RouteBatch
          /\ pending = SetToBag({NewReq(q[1], q[2], q[3], q[4]) : q \in batch})
    /\ lastOk = EmptyMap
    /\ admitted = EmptyMap
    /\ arrivals = EmptyMap

NextRoute ==
    \/ \E t \in TimePoints : Tick(t)
    \/ \E r \in BagToSet(pending) : Dequeue(r)
    \/ authenticateApiKey
    \/ rateLimiter
    \/ cacheMiddleware
    \/ proxy
    \/ notFoundHandler
    \/ \E r \in BagToSet(awaiting), s \in UpstreamStatuses : onProxyRes(r, s)
    \/ \E r \in BagToSet(awaiting) : onError(r)
    \/ Finish

SpecRoute == InitRoute /\ [][NextRoute]_vars

(* Five requests of ip1 have arrived together while its window stands at   *)
(* Warm: one without a key, two for /gateway/stats, one for a proxied route *)
(* and one for a path with no route                                         *)
LiveRequests ==
    (NewReq("GET", StatsPath, NoKey, "ip1") :> 1)
    @@ (NewReq("GET", StatsPath, validApiKey, "ip1") :> 2)
    @@ (NewReq("GET", UserUrl, validApiKey, "ip1") :> 1)
    @@ (NewReq("GET", NoRouteUrl, validApiKey, "ip1") :> 1)

InitLive ==
    /\ now = 0
    /\ config \in Configs
    /\ rateLimitStore = ("ip1" :> [count |-> Warm, windowStart |-> 0])
    /\ cacheStore = <<>>
    /\ cur = NoReq
    /\ awaiting = EmptyBag
    /\ pending = LiveRequests
    /\ lastOk = EmptyMap
    /\ admitted = EmptyMap
    /\ arrivals = ("ip1" :> [ws |-> 0, n |-> Warm, ok |-> Warm, prevN |-> 0])

(* the steps the event loop takes: a callback that is ready to run is run, *)
(* and an upstream call ends in an answer or in an error                  *)
Progress ==
    \/ \E r \in BagToSet(pending) : Dequeue(r)
    \/ authenticateApiKey
    \/ rateLimiter
    \/ cacheMiddleware
    \/ statsHandler
    \/ proxy
    \/ notFoundHandler
    \/ \E r \in BagToSet(awaiting), s \in UpstreamStatuses : onProxyRes(r, s)
    \/ \E r \in BagToSet(awaiting) : onError(r)
    \/ Finish

NextLive ==
    \/ \E t \in TimePoints : Tick(t)
    \/ Progress

SpecLive == InitLive /\ [][NextLive]_vars /\ WF_vars(Progress)

----------------------------------------------------------------------------
(* Properties of the rate limiter *)

(* rateLimiter has just handled cur: it let it through or answered 429 *)
JustRated ==
    \/ cur.stage = "rated"
    \/ cur.stage = "responded" /\ cur.body.tag = "rateLimited"

(* C1: the k-th authenticated request of a client inside one window,        *)
(* k <= maxRequests, is let through with X-RateLimit-Remaining =            *)
(* maxRequests - k                                                          *)
C1_AllowedWithinLimit ==
    (JustRated /\ arrivals[cur.ip].n <= maxRequests)
        => /\ cur.stage = "rated"
           /\ cur.rlRemaining = maxRequests - arrivals[cur.ip].n

C1_Witness ==
    /\ cur.stage = "rated"
    /\ arrivals[cur.ip].n = maxRequests
    /\ cur.rlRemaining = 0

(* C2: every 429 carries a retryAfter that is > 0 and at most the window    *)
(* duration in seconds                                                      *)
C2_RetryAfterBounds ==
    (cur.stage = "responded" /\ cur.status = 429)
        => (cur.retryAfter > 0 /\ cur.retryAfter <= windowMs \div 1000)

(* C3: once more than windowMs has passed since the windowStart of a        *)
(* client's window, its next authenticated request is let through whatever  *)
(* the old window counted, starts a window at now with count 1 and reports  *)
(* remaining = maxRequests - 1                                              *)
C3_NewWindowAfterExpiry ==
    [][ ( /\ cur.stage = "authed" /\ cur'.stage # "authed"
          /\ cur.ip \in DOMAIN arrivals
          /\ now - arrivals[cur.ip].ws > windowMs )
        => ( /\ cur'.stage = "rated"
             /\ cur'.rlRemaining = maxRequests - 1
             /\ rateLimitStore'[cur.ip] = [count |-> 1, windowStart |-> now] )
      ]_vars

C3_Witness ==
    /\ cur.stage = "rated"
    /\ arrivals[cur.ip].n = 1
    /\ arrivals[cur.ip].prevN > maxRequests
    /\ rateLimitStore[cur.ip].windowStart = now

(* C4: of N > maxRequests requests of one new client that are in flight     *)
(* together, at most maxRequests are let through in one window, and no two  *)
(* of them were counted as the same request of the window                   *)
C4_NoOverAdmission ==
    /\ \A ip \in DOMAIN arrivals : arrivals[ip].ok <= maxRequests
    /\ \A r \in BagToSet(awaiting) :
          /\ CopiesIn(r, awaiting) = 1
          /\ cur.stage \in {"rated", "miss"}
                => <<cur.rlReset, cur.rlRemaining>> # <<r.rlReset, r.rlRemaining>>

C4_Witness ==
    /\ pending = EmptyBag
    /\ "ip1" \in DOMAIN arrivals
    /\ arrivals["ip1"].n = Burst
    /\ arrivals["ip1"].ok = maxRequests
    /\ BagCardinality(awaiting) >= 1

----------------------------------------------------------------------------
(* Properties of the response cache *)

EntryFor(key) == cacheStore[KeyIndex(cacheStore, key)]

(* C5: after an upstream 200 answer to a GET was relayed at time t, an      *)
(* identical GET handled less than the TTL later is answered from           *)
(* cacheStore with _cachedAt = t and is not forwarded                       *)
C5_RepeatedGetIsCacheHit ==
    LET key == CacheKey(cur.method, cur.url, cur.apiKey)
    IN ( /\ cur.method = "GET"
         /\ cur.stage \in {"miss", "responded"}
         /\ cur.calls = 0
         /\ cur.status \notin {401, 429}
         /\ key \in DOMAIN lastOk
         /\ now - lastOk[key] < cacheTtlMs )
       => ( /\ cur.stage = "responded"
            /\ cur.cached
            /\ cur.cachedAt = toISOString(lastOk[key]) )

(* C6: cacheMiddleware answers from cacheStore exactly when the request is  *)
(* a GET whose entry is younger than the TTL; with an entry of age >= TTL   *)
(* or no entry the request goes on to the route handlers                    *)
C6_HitOnlyWhileFresh ==
    [][ (cur.stage = "rated" /\ cur'.stage # "rated")
        => LET key == CacheKey(cur.method, cur.url, cur.apiKey)
               young == /\ cur.method = "GET"
                        /\ KeyIndex(cacheStore, key) # 0
                        /\ now - EntryFor(key).timestamp < cacheTtlMs
           IN /\ cur'.cached <=> young
              /\ cur'.cached =>
                    /\ cur'.stage = "responded"
                    /\ cur'.cachedAt = toISOString(EntryFor(key).timestamp)
                    /\ cur'.body = EntryFor(key).data
              /\ ~cur'.cached => cur'.stage = "miss"
      ]_vars

C6_Witness ==
    /\ cur.stage = "miss"
    /\ cur.wrapped
    /\ KeyIndex(cacheStore, cur.cacheKey) # 0
    /\ now - EntryFor(cur.cacheKey).timestamp = cacheTtlMs

(* C7: a cache hit returns the data stored for the same method, the same    *)
(* path+query and the same credential, and the same GET with any other      *)
(* credential has a different cache key                                     *)
C7_NoCrossCredentialHit ==
    (cur.stage = "responded" /\ cur.cached)
        => /\ KeyIndex(cacheStore, cur.cacheKey) # 0
           /\ EntryFor(cur.cacheKey).gMethod = cur.method
           /\ EntryFor(cur.cacheKey).gUrl = cur.url
           /\ EntryFor(cur.cacheKey).gApiKey = cur.apiKey
           /\ EntryFor(cur.cacheKey).data = cur.body
           /\ \A k \in Keys \ {cur.apiKey} :
                 CacheKey(cur.method, cur.url, k) # EntryFor(cur.cacheKey).key

C7_Witness ==
    /\ cur.stage = "responded"
    /\ cur.cached
    /\ Len(cacheStore) > 1

(* C8: cacheStore never holds more than cacheMaxSize entries after a store, *)
(* and the store of a new key into a full cacheStore leaves at most         *)
(* cacheMaxSize - cacheEvictBatch + 1 entries                               *)
C8_BoundedCache ==
    /\ [](Len(cacheStore) <= cacheMaxSize)
    /\ [][ ( /\ Len(cacheStore) = cacheMaxSize
             /\ cacheStore' # cacheStore
             /\ KeyIndex(cacheStore, cur.cacheKey) = 0 )
           => Len(cacheStore') <= cacheMaxSize - cacheEvictBatch + 1
         ]_vars

C8_Witness ==
    /\ Len(cacheStore) = cacheMaxSize - cacheEvictBatch + 1
    /\ cur.stage = "responded"
    /\ KeyIndex(cacheStore, cur.cacheKey) = Len(cacheStore)

(* C9: every entry of cacheStore was written for a GET answered 200, and a  *)
(* step of a request that is not a GET neither changes cacheStore nor is    *)
(* answered from it                                                         *)
C9_OnlyGet200Stored ==
    /\ [](\A i \in 1..Len(cacheStore) :
             cacheStore[i].gMethod = "GET" /\ cacheStore[i].gStatus = 200)
    /\ [][ (cur'.stage # "idle" /\ cur'.method # "GET")
           => (cacheStore' = cacheStore /\ ~cur'.cached) ]_vars

C9_Witness ==
    /\ cur.stage = "responded"
    /\ cur.status = 502
    /\ cur.wrapped
    /\ KeyIndex(cacheStore, cur.cacheKey) = 0
    /\ Len(cacheStore) > 0

----------------------------------------------------------------------------
(* Properties of the endpoints and of the pipeline *)

(* C11: a GET /health that carries no x-api-key, or a wrong one, is      *)
(* answered 200 with the health body, never 401                          *)
C11_HealthNeedsNoKey ==
    ( /\ cur.stage = "responded"
      /\ cur.method = "GET"
      /\ PathOf(cur.url) = HealthPath
      /\ cur.apiKey # validApiKey )
    => (cur.status = 200 /\ cur.body.tag = "health")

(* the requests inside the gateway: arrived, running or waiting for upstream *)
InSystem ==
    BagCardinality(pending) + BagCardinality(awaiting) + (IF Idle THEN 0 ELSE 1)

Quiescent == pending = EmptyBag /\ awaiting = EmptyBag /\ cur = NoReq

(* the moves of cur from one stage to the next *)
StageMoves ==
    { <<"idle", "recv">>,
      <<"recv", "authed">>, <<"recv", "responded">>,
      <<"authed", "rated">>, <<"authed", "responded">>,
      <<"rated", "miss">>, <<"rated", "responded">>,
      <<"miss", "responded">>, <<"miss", "idle">>,
      <<"idle", "responded">>,
      <<"responded", "idle">> }

----------------------------------------------------------------------------
(* Properties of routing and forwarding *)

(* the path is a configured prefix or goes on after one with a "/" *)
AtSegmentBoundary(path) ==
    \E i \in 1..Len(config) :
        /\ StartsWith(path, config[i][1])
        /\ IF Len(path) = Len(config[i][1]) THEN TRUE
           ELSE path[Len(config[i][1]) + 1] = "/"

(* this step hands cur to the proxy, which calls target t *)
ForwardedTo(t) ==
    \E r \in BagToSet(awaiting') :
        /\ awaiting' = awaiting (+) SetToBag({r})
        /\ r.url = cur.url /\ r.method = cur.method
        /\ r.calls = 1
        /\ r.target = t

C14_UpstreamPathKeepsQuery ==
    \A r \in BagToSet(awaiting) :
        LET path == PathOf(r.url)
            route == config[FirstPrefix(path)][1]
            rest == SubSeq(path, Len(route) + 1, Len(path))
            query == IF QueryIndex(r.url) = 0 THEN <<>>
                     ELSE SubSeq(r.url, QueryIndex(r.url), Len(r.url))
        IN r.upPath = (IF rest = <<>> THEN <<"/">> ELSE rest) \o query

C16_RateLimitHeadersAlways ==
    (cur.stage = "responded" /\ cur.apiKey = validApiKey)
        => /\ cur.rlLimit = maxRequests
           /\ cur.rlRemaining \in 0..maxRequests
           /\ \E ws \in {0} \cup TimePoints :
                 cur.rlReset = toISOString(ws + windowMs)

(* C17: a 200 answer to GET /gateway/stats reports the number of entries of *)
(* rateLimitStore and of cacheStore at the time the request is handled,     *)
(* whether the route handler or cacheMiddleware writes the answer           *)
C17_StatsAreCurrent ==
    [][ ( /\ cur.stage \in {"rated", "miss"}
          /\ cur.method = "GET" /\ PathOf(cur.url) = StatsPath
          /\ cur'.stage = "responded" /\ cur'.status = 200 )
        => ( /\ cur'.body.activeConnections = Cardinality(DOMAIN rateLimitStore)
             /\ cur'.body.cacheSize = Len(cacheStore) )
      ]_vars

(* C20: of the identical GET requests (same method, path+query and         *)
(* credential) that are in flight together, at most one has an upstream    *)
(* call outstanding                                                        *)
C20_Deduplicated ==
    \A r \in BagToSet(awaiting) :
        r.method = "GET"
            => /\ CopiesIn(r, awaiting) = 1
               /\ \A q \in BagToSet(awaiting) :
                     CacheKey(q.method, q.url, q.apiKey)
                         = CacheKey(r.method, r.url, r.apiKey) => q = r

C19_LongestMatchWins ==
    \A r \in BagToSet(awaiting) :
        r.target = config[LongestPrefix(PathOf(r.url))][2]

----------------------------------------------------------------------------
(* Properties of the windows and of eviction *)

(* C21: for every client and every interval of one minute, whatever its    *)
(* starting point, at most maxRequests of the client's requests that       *)
(* arrive in the interval are let through by rateLimiter                   *)
C21_AnyMinuteAtMostTen ==
    \A ip \in DOMAIN admitted :
        \A s \in DOMAIN admitted[ip] :
            BagCardinality(
                [a \in {b \in DOMAIN admitted[ip] : s <= b /\ b < s + windowMs}
                    |-> admitted[ip][a]]) <= maxRequests

(* C22: every request that passes authentication adds exactly one to its   *)
(* client's count, in the one step of rateLimiter and in no later step,    *)
(* whether it is then denied, answered from the cache, answered 404 or     *)
(* 502; so the stored count of a window is the number of authenticated     *)
(* requests of the client since its windowStart                            *)
C22_EveryAuthenticatedCounted ==
    /\ [] (\A ip \in DOMAIN rateLimitStore :
              /\ ip \in DOMAIN arrivals
              /\ rateLimitStore[ip].windowStart = arrivals[ip].ws
              /\ rateLimitStore[ip].count = arrivals[ip].n)
    /\ [][ (cur.stage = "authed" /\ cur'.stage # "authed")
           => rateLimitStore'[cur.ip].count =
                 (IF /\ cur.ip \in DOMAIN rateLimitStore
                     /\ now - rateLimitStore[cur.ip].windowStart <= windowMs
                  THEN rateLimitStore[cur.ip].count + 1
                  ELSE 1)
         ]_vars
    /\ [][ cur.stage # "authed" => rateLimitStore' = rateLimitStore ]_vars

C22_Witness ==
    /\ cur.stage = "responded"
    /\ cur.status = 429
    /\ rateLimitStore[cur.ip].count = maxRequests + 2
    /\ arrivals[cur.ip].ok = maxRequests
    /\ Len(cacheStore) > 0

(* C23: when a store evicts, no entry that survives has a timestamp        *)
(* earlier than the timestamp of an entry that was evicted, also when keys *)
(* were stored again after they had expired                                *)
C23_EvictsOldestStored ==
    [][ \A i \in 1..Len(cacheStore) :
            KeyIndex(cacheStore', cacheStore[i].key) = 0
                => \A j \in 1..Len(cacheStore') :
                       cacheStore'[j].timestamp >= cacheStore[i].timestamp
      ]_vars

(* C24: right after a rateLimiter check at time now every entry of         *)
(* rateLimitStore has count >= 1 and now - windowStart <= windowMs: the    *)
(* expired windows of all clients are gone, and the unexpired windows of   *)
(* the other clients keep their count and windowStart                      *)
C24_SweptBeforeCounting ==
    [][ (cur.stage = "authed" /\ cur'.stage # "authed")
        => /\ \A ip \in DOMAIN rateLimitStore' :
                 /\ rateLimitStore'[ip].count >= 1
                 /\ now - rateLimitStore'[ip].windowStart <= windowMs
           /\ cur.ip \in DOMAIN rateLimitStore'
           /\ \A ip \in DOMAIN rateLimitStore \ {cur.ip} :
                 IF now - rateLimitStore[ip].windowStart <= windowMs
                 THEN /\ ip \in DOMAIN rateLimitStore'
                      /\ rateLimitStore'[ip] = rateLimitStore[ip]
                 ELSE ip \notin DOMAIN rateLimitStore'
           /\ DOMAIN rateLimitStore' \subseteq DOMAIN rateLimitStore \cup {cur.ip}
      ]_vars

C24_Witness ==
    /\ JustRated
    /\ cur.ip = "ip1"
    /\ "ip2" \in DOMAIN arrivals
    /\ "ip2" \notin DOMAIN rateLimitStore
    /\ rateLimitStore["ip1"].count > 1
    /\ now - rateLimitStore["ip1"].windowStart > 0

====
